---- MODULE Spec2Model ----
(***************************************************************************)
(* Detection core of the YouTube Shorts product filter.                    *)
(*                                                                         *)
(* Two implementations of the same pipeline live in the repository and     *)
(* both are modelled, selected by the variable impl:                       *)
(*   "step4" : step4_complete_system.py  (run_complete_filter)             *)
(*   "ysf"   : youtube_shorts_filter.py  (run_filter, used by app.py)      *)
(*                                                                         *)
(* Texts and duration tokens are sequences of one-character strings.  The  *)
(* characters EUR and GBP stand for the euro and pound signs.              *)
(***************************************************************************)
EXTENDS Integers, Sequences, FiniteSets, TLC

\* ------------------------------------------------------------------------
\* Characters and str methods
\* ------------------------------------------------------------------------
Digits == {"0", "1", "2", "3", "4", "5", "6", "7", "8", "9"}

Whitespace == {" ", "\t", "\n"}

UpperLetters ==
  << "A", "B", "C", "D", "E", "F", "G", "H", "I", "J", "K", "L", "M",
     "N", "O", "P", "Q", "R", "S", "T", "U", "V", "W", "X", "Y", "Z" >>

LowerLetters ==
  << "a", "b", "c", "d", "e", "f", "g", "h", "i", "j", "k", "l", "m",
     "n", "o", "p", "q", "r", "s", "t", "u", "v", "w", "x", "y", "z" >>

\* str.lower() on one character
LowerChar(c) ==
  IF \E k \in 1..26 : UpperLetters[k] = c
  THEN LowerLetters[CHOOSE k \in 1..26 : UpperLetters[k] = c]
  ELSE c

\* str.lower()
LowerText(text) == [k \in 1..Len(text) |-> LowerChar(text[k])]

\* int() on one decimal digit
DigitVal(c) ==
  CASE c = "0" -> 0 [] c = "1" -> 1 [] c = "2" -> 2 [] c = "3" -> 3
    [] c = "4" -> 4 [] c = "5" -> 5 [] c = "6" -> 6 [] c = "7" -> 7
    [] c = "8" -> 8 [] c = "9" -> 9

\* int(s) raises ValueError unless s is a non-empty run of decimal digits
IntRaises(s) == s = << >> \/ \E k \in 1..Len(s) : s[k] \notin Digits

RECURSIVE IntOf(_)
IntOf(s) ==
  IF s = << >> THEN 0
  ELSE 10 * IntOf(SubSeq(s, 1, Len(s) - 1)) + DigitVal(s[Len(s)])

\* " ".join(strs)
RECURSIVE JoinSpace(_)
JoinSpace(strs) ==
  IF strs = << >> THEN << >>
  ELSE IF Len(strs) = 1 THEN strs[1]
  ELSE strs[1] \o << " " >> \o JoinSpace(Tail(strs))

\* ------------------------------------------------------------------------
\* Regular expressions: syntax trees and re.search / re.IGNORECASE
\* ------------------------------------------------------------------------
Lit(chars) == [t |-> "lit", chars |-> chars]
Chr(set)   == [t |-> "chr", set |-> set]
AnyChar    == [t |-> "any"]
EndOfString == [t |-> "eos"]
Cat(parts) == [t |-> "cat", parts |-> parts]
Alt(parts) == [t |-> "alt", parts |-> parts]
Opt(sub)   == [t |-> "opt", sub |-> sub]
Star(sub)  == [t |-> "star", sub |-> sub]
Plus(sub)  == [t |-> "plus", sub |-> sub]

\* The positions (number of characters consumed) at which a match of re can
\* end when it starts at one of the positions of S; letters compare
\* case-insensitively (re.IGNORECASE).
RECURSIVE Ends(_, _, _), EndsCat(_, _, _, _), EndsRepeat(_, _, _, _)
Ends(re, text, S) ==
  CASE re.t = "lit" ->
         { p + Len(re.chars) : p \in
             { q \in S : /\ q + Len(re.chars) <= Len(text)
                         /\ \A k \in 1..Len(re.chars) :
                              LowerChar(text[q + k]) = LowerChar(re.chars[k]) } }
    [] re.t = "chr" ->
         { p + 1 : p \in { q \in S : q < Len(text) /\ text[q + 1] \in re.set } }
    [] re.t = "any" ->
         { p + 1 : p \in { q \in S : q < Len(text) /\ text[q + 1] # "\n" } }
    [] re.t = "eos" ->
         { q \in S : \/ q = Len(text)
                     \/ q = Len(text) - 1 /\ text[Len(text)] = "\n" }
    [] re.t = "cat" -> EndsCat(re.parts, 1, text, S)
    [] re.t = "alt" -> UNION { Ends(re.parts[k], text, S) : k \in DOMAIN re.parts }
    [] re.t = "opt" -> S \cup Ends(re.sub, text, S)
    [] re.t = "plus" -> EndsRepeat(re.sub, text, Ends(re.sub, text, S), {})
    [] re.t = "star" -> S \cup EndsRepeat(re.sub, text, Ends(re.sub, text, S), {})

EndsCat(parts, k, text, S) ==
  IF k > Len(parts) \/ S = {} THEN S
  ELSE EndsCat(parts, k + 1, text, Ends(parts[k], text, S))

EndsRepeat(sub, text, frontier, acc) ==
  IF frontier \subseteq acc THEN acc
  ELSE EndsRepeat(sub, text, Ends(sub, text, frontier \ acc), acc \cup frontier)

\* re.search(pattern, text, re.IGNORECASE) finds a match
re_search(re, text) == Ends(re, text, 0..Len(text)) # {}

\* ------------------------------------------------------------------------
\* Pattern Library
\* ------------------------------------------------------------------------
\* step4_complete_system.py: self.regex_patterns
regex_patterns ==
  << [text |-> "iphone\\s*\\d+",
      re |-> Cat(<<Lit(<<"i", "p", "h", "o", "n", "e">>), Star(Chr(Whitespace)), Plus(Chr(Digits))>>)],
     [text |-> "galaxy\\s*s\\d+",
      re |-> Cat(<<Lit(<<"g", "a", "l", "a", "x", "y">>), Star(Chr(Whitespace)), Lit(<<"s">>), Plus(Chr(Digits))>>)],
     [text |-> "macbook\\s*(pro|air)?",
      re |-> Cat(<<Lit(<<"m", "a", "c", "b", "o", "o", "k">>), Star(Chr(Whitespace)), Opt(Alt(<<Lit(<<"p", "r", "o">>), Lit(<<"a", "i", "r">>)>>))>>)],
     [text |-> "airpods?\\s*(pro|max)?",
      re |-> Cat(<<Lit(<<"a", "i", "r", "p", "o", "d">>), Opt(Lit(<<"s">>)), Star(Chr(Whitespace)), Opt(Alt(<<Lit(<<"p", "r", "o">>), Lit(<<"m", "a", "x">>)>>))>>)],
     [text |-> "nike",
      re |-> Lit(<<"n", "i", "k", "e">>)],
     [text |-> "adidas",
      re |-> Lit(<<"a", "d", "i", "d", "a", "s">>)],
     [text |-> "buy\\s+now",
      re |-> Cat(<<Lit(<<"b", "u", "y">>), Plus(Chr(Whitespace)), Lit(<<"n", "o", "w">>)>>)],
     [text |-> "shop\\s+here",
      re |-> Cat(<<Lit(<<"s", "h", "o", "p">>), Plus(Chr(Whitespace)), Lit(<<"h", "e", "r", "e">>)>>)],
     [text |-> "get\\s+yours?",
      re |-> Cat(<<Lit(<<"g", "e", "t">>), Plus(Chr(Whitespace)), Lit(<<"y", "o", "u", "r">>), Opt(Lit(<<"s">>))>>)],
     [text |-> "order\\s+now",
      re |-> Cat(<<Lit(<<"o", "r", "d", "e", "r">>), Plus(Chr(Whitespace)), Lit(<<"n", "o", "w">>)>>)],
     [text |-> "link\\s+in\\s+bio",
      re |-> Cat(<<Lit(<<"l", "i", "n", "k">>), Plus(Chr(Whitespace)), Lit(<<"i", "n">>), Plus(Chr(Whitespace)), Lit(<<"b", "i", "o">>)>>)],
     [text |-> "swipe\\s+up",
      re |-> Cat(<<Lit(<<"s", "w", "i", "p", "e">>), Plus(Chr(Whitespace)), Lit(<<"u", "p">>)>>)],
     [text |-> "product\\s+review",
      re |-> Cat(<<Lit(<<"p", "r", "o", "d", "u", "c", "t">>), Plus(Chr(Whitespace)), Lit(<<"r", "e", "v", "i", "e", "w">>)>>)],
     [text |-> "unboxing",
      re |-> Lit(<<"u", "n", "b", "o", "x", "i", "n", "g">>)],
     [text |-> "haul",
      re |-> Lit(<<"h", "a", "u", "l">>)],
     [text |-> "first\\s+impressions?",
      re |-> Cat(<<Lit(<<"f", "i", "r", "s", "t">>), Plus(Chr(Whitespace)), Lit(<<"i", "m", "p", "r", "e", "s", "s", "i", "o", "n">>), Opt(Lit(<<"s">>))>>)],
     [text |-> "amazon\\.com",
      re |-> Lit(<<"a", "m", "a", "z", "o", "n", ".", "c", "o", "m">>)],
     [text |-> "amzn\\.to",
      re |-> Lit(<<"a", "m", "z", "n", ".", "t", "o">>)],
     [text |-> "etsy\\.com",
      re |-> Lit(<<"e", "t", "s", "y", ".", "c", "o", "m">>)],
     [text |-> "shopify\\.com",
      re |-> Lit(<<"s", "h", "o", "p", "i", "f", "y", ".", "c", "o", "m">>)],
     [text |-> "walmart\\.com",
      re |-> Lit(<<"w", "a", "l", "m", "a", "r", "t", ".", "c", "o", "m">>)],
     [text |-> "target\\.com",
      re |-> Lit(<<"t", "a", "r", "g", "e", "t", ".", "c", "o", "m">>)],
     [text |-> "bestbuy\\.com",
      re |-> Lit(<<"b", "e", "s", "t", "b", "u", "y", ".", "c", "o", "m">>)],
     [text |-> "(\\$|EUR|GBP)\\d+(\\.\\d{2})?",
      re |-> Cat(<<Alt(<<Lit(<<"$">>), Lit(<<"EUR">>), Lit(<<"GBP">>)>>), Plus(Chr(Digits)), Opt(Cat(<<Lit(<<".">>), Cat(<<Chr(Digits), Chr(Digits)>>)>>))>>)],
     [text |-> "discount",
      re |-> Lit(<<"d", "i", "s", "c", "o", "u", "n", "t">>)],
     [text |-> "sale",
      re |-> Lit(<<"s", "a", "l", "e">>)],
     [text |-> "deal",
      re |-> Lit(<<"d", "e", "a", "l">>)],
     [text |-> "\\d+%\\s*off",
      re |-> Cat(<<Plus(Chr(Digits)), Lit(<<"%">>), Star(Chr(Whitespace)), Lit(<<"o", "f", "f">>)>>)],
     [text |-> "affiliate\\s+link",
      re |-> Cat(<<Lit(<<"a", "f", "f", "i", "l", "i", "a", "t", "e">>), Plus(Chr(Whitespace)), Lit(<<"l", "i", "n", "k">>)>>)],
     [text |-> "sponsored",
      re |-> Lit(<<"s", "p", "o", "n", "s", "o", "r", "e", "d">>)],
     [text |-> "#ad",
      re |-> Lit(<<"#", "a", "d">>)],
     [text |-> "promo\\s*code",
      re |-> Cat(<<Lit(<<"p", "r", "o", "m", "o">>), Star(Chr(Whitespace)), Lit(<<"c", "o", "d", "e">>)>>)] >>

\* youtube_shorts_filter.py: the local list patterns.  Its raw strings double
\* every backslash, so "\\s" is a literal backslash followed by the letter s,
\* "\\." a literal backslash followed by any character, and "\\$" a literal
\* backslash followed by the end-of-string anchor.
patterns ==
  << [text |-> "iphone\\\\s*\\\\d+",
      re |-> Cat(<<Lit(<<"i", "p", "h", "o", "n", "e", "\\">>), Star(Lit(<<"s">>)), Lit(<<"\\">>), Plus(Lit(<<"d">>))>>)],
     [text |-> "galaxy\\\\s*s\\\\d+",
      re |-> Cat(<<Lit(<<"g", "a", "l", "a", "x", "y", "\\">>), Star(Lit(<<"s">>)), Lit(<<"s", "\\">>), Plus(Lit(<<"d">>))>>)],
     [text |-> "nike",
      re |-> Lit(<<"n", "i", "k", "e">>)],
     [text |-> "adidas",
      re |-> Lit(<<"a", "d", "i", "d", "a", "s">>)],
     [text |-> "buy\\\\s+now",
      re |-> Cat(<<Lit(<<"b", "u", "y", "\\">>), Plus(Lit(<<"s">>)), Lit(<<"n", "o", "w">>)>>)],
     [text |-> "shop\\\\s+here",
      re |-> Cat(<<Lit(<<"s", "h", "o", "p", "\\">>), Plus(Lit(<<"s">>)), Lit(<<"h", "e", "r", "e">>)>>)],
     [text |-> "link\\\\s+in\\\\s+bio",
      re |-> Cat(<<Lit(<<"l", "i", "n", "k", "\\">>), Plus(Lit(<<"s">>)), Lit(<<"i", "n", "\\">>), Plus(Lit(<<"s">>)), Lit(<<"b", "i", "o">>)>>)],
     [text |-> "product\\\\s+review",
      re |-> Cat(<<Lit(<<"p", "r", "o", "d", "u", "c", "t", "\\">>), Plus(Lit(<<"s">>)), Lit(<<"r", "e", "v", "i", "e", "w">>)>>)],
     [text |-> "unboxing",
      re |-> Lit(<<"u", "n", "b", "o", "x", "i", "n", "g">>)],
     [text |-> "amazon\\\\.com",
      re |-> Cat(<<Lit(<<"a", "m", "a", "z", "o", "n", "\\">>), AnyChar, Lit(<<"c", "o", "m">>)>>)],
     [text |-> "etsy\\\\.com",
      re |-> Cat(<<Lit(<<"e", "t", "s", "y", "\\">>), AnyChar, Lit(<<"c", "o", "m">>)>>)],
     [text |-> "shopify\\\\.com",
      re |-> Cat(<<Lit(<<"s", "h", "o", "p", "i", "f", "y", "\\">>), AnyChar, Lit(<<"c", "o", "m">>)>>)],
     [text |-> "walmart\\\\.com",
      re |-> Cat(<<Lit(<<"w", "a", "l", "m", "a", "r", "t", "\\">>), AnyChar, Lit(<<"c", "o", "m">>)>>)],
     [text |-> "target\\\\.com",
      re |-> Cat(<<Lit(<<"t", "a", "r", "g", "e", "t", "\\">>), AnyChar, Lit(<<"c", "o", "m">>)>>)],
     [text |-> "bestbuy\\\\.com",
      re |-> Cat(<<Lit(<<"b", "e", "s", "t", "b", "u", "y", "\\">>), AnyChar, Lit(<<"c", "o", "m">>)>>)],
     [text |-> "(\\\\$|EUR|GBP)\\\\d+(\\\\.\\\\d{2})?",
      re |-> Cat(<<Alt(<<Cat(<<Lit(<<"\\">>), EndOfString>>), Lit(<<"EUR">>), Lit(<<"GBP">>)>>), Lit(<<"\\">>), Plus(Lit(<<"d">>)), Opt(Cat(<<Lit(<<"\\">>), AnyChar, Lit(<<"\\">>), Cat(<<Lit(<<"d">>), Lit(<<"d">>)>>)>>))>>)],
     [text |-> "discount",
      re |-> Lit(<<"d", "i", "s", "c", "o", "u", "n", "t">>)],
     [text |-> "sale",
      re |-> Lit(<<"s", "a", "l", "e">>)] >>

\* Faulty variant, for sensitivity of the properties: a match is put in front of the later ones
RECURSIVE MatchedFromBackwards(_, _, _)
MatchedFromBackwards(library, k, text) ==
  IF k > Len(library) THEN << >>
  ELSE MatchedFromBackwards(library, k + 1, text)
       \o (IF re_search(library[k].re, text) THEN << library[k].text >> ELSE << >>)

\* found_patterns after the loop over library[k..]
RECURSIVE MatchedFrom(_, _, _)
MatchedFrom(library, k, text) ==
  IF k > Len(library) THEN << >>
  ELSE (IF re_search(library[k].re, text) THEN << library[k].text >> ELSE << >>)
       \o MatchedFrom(library, k + 1, text)

\* step4_complete_system.py: detect_products_regex
detect_products_regex(text) == MatchedFrom(regex_patterns, 1, LowerText(text))

\* youtube_shorts_filter.py: detect_products_regex
detect_products_regex_ysf(text) == MatchedFrom(patterns, 1, text)

\* ------------------------------------------------------------------------
\* Duration Classifier
\* ------------------------------------------------------------------------
\* Index of the last character of the longest run of characters of set that
\* starts right after position p of tok (p itself when the run is empty).
RECURSIVE RunEnd(_, _, _)
RunEnd(tok, p, set) ==
  IF p < Len(tok) /\ tok[p + 1] \in set THEN RunEnd(tok, p + 1, set) ELSE p

\* One optional group "(?:(<lead><run>+)<suffix>)?" of the duration pattern,
\* tried after p characters of tok.  The run is greedy and the suffix is not
\* a run character, so the group either takes the whole run or nothing.
DurationGroup(lead, run, suffix, tok, p) ==
  LET s == p + Len(lead)
      leadOk == /\ s <= Len(tok)
                /\ \A k \in 1..Len(lead) : tok[p + k] = lead[k]
      e == IF leadOk THEN RunEnd(tok, s, run) ELSE s
  IN  IF leadOk /\ e > s /\ e < Len(tok) /\ tok[e + 1] = suffix
      THEN [matched |-> TRUE, group |-> SubSeq(tok, p + 1, e), end |-> e + 1]
      ELSE [matched |-> FALSE, group |-> << >>, end |-> p]

\* the one element of a set of one element
TheOne(S) == CHOOSE x \in S : TRUE

\* The two int() conversions and the sum, for the groups g1 and g2 of a
\* match: ValueError / total_seconds.
DurationTotal(g1, g2) ==
  LET bad == \/ g1.matched /\ IntRaises(g1.group)
             \/ g2.matched /\ IntRaises(g2.group)
      minutes == IF g1.matched THEN IntOf(g1.group) ELSE 0
      seconds == IF g2.matched THEN IntOf(g2.group) ELSE 0
  IN  IF bad THEN [match |-> TRUE, raises |-> TRUE, total_seconds |-> 0]
      ELSE [match |-> TRUE, raises |-> FALSE,
            total_seconds |-> minutes * 60 + seconds]

\* re.match("PT(?:(..)M)?(?:(..)S)?", duration) followed by the two int()
\* conversions and the sum: match is None / ValueError / total_seconds.
\* The minutes group is tried right after "PT", the seconds group where the
\* minutes group ended; each is worked out once.
DurationParse(lead, run, duration) ==
  IF ~(Len(duration) >= 2 /\ duration[1] = "P" /\ duration[2] = "T")
  THEN [match |-> FALSE, raises |-> FALSE, total_seconds |-> 0]
  ELSE TheOne({ TheOne({ DurationTotal(g1, g2) :
                           g2 \in { DurationGroup(lead, run, "S", duration,
                                                  g1.end) } }) :
                g1 \in { DurationGroup(lead, run, "M", duration, 2) } })

ShortLimit == 60

\* Faulty variant, for sensitivity of the properties: the test "if duration_match" left out
is_short_video_unmatched(duration) ==
  DurationParse(<< >>, Digits, duration).total_seconds <= ShortLimit

\* step4_complete_system.py: r"PT(?:(\d+)M)?(?:(\d+)S)?"
is_short_video_parse(duration) == DurationParse(<< >>, Digits, duration)

is_short_video(duration) ==
  LET m == is_short_video_parse(duration)
  IN  m.match /\ m.total_seconds <= ShortLimit

\* youtube_shorts_filter.py: r"PT(?:(\\d+)M)?(?:(\\d+)S)?", where "\\d+" is a
\* literal backslash followed by one or more letters d.
is_short_video_ysf_parse(duration) == DurationParse(<< "\\" >>, {"d"}, duration)

is_short_video_ysf(duration) ==
  LET m == is_short_video_ysf_parse(duration)
  IN  m.match /\ m.total_seconds <= ShortLimit

\* ------------------------------------------------------------------------
\* Bounds and input domains
\* ------------------------------------------------------------------------
\* longest search_queries list of a run
MaxQueries == 2

\* the per-query cap handed to search (maxResults): longest search response
max_results_per_query == 2

\* most identifiers all the searches of one run return together
MaxReturned == 2

\* most runs one instance is driven through
MaxRuns == 2

\* Search terms and video identifiers are opaque strings: a list is explored
\* only when its elements first appear in this order.
Terms == << "t1", "t2" >>

VideoIds == << "v1", "v2" >>

Range(f) == { f[k] : k \in DOMAIN f }

SeqsUpTo(S, n) == UNION { [1..k -> S] : k \in 0..n }

InOrderOfFirstUse(list, names) ==
  \A k \in DOMAIN list : \A m \in DOMAIN names :
    names[m] = list[k] =>
      \A n \in 1..(m - 1) : \E j \in 1..(k - 1) : list[j] = names[n]

QueryLists ==
  { qs \in SeqsUpTo(Range(Terms), MaxQueries) : InOrderOfFirstUse(qs, Terms) }

SearchResponses == SeqsUpTo(Range(VideoIds), max_results_per_query)

\* The decimal numeral of n, as the platform writes it in a duration
DigitChars == << "0", "1", "2", "3", "4", "5", "6", "7", "8", "9" >>

RECURSIVE Decimal(_)
Decimal(n) ==
  IF n < 10 THEN << DigitChars[n + 1] >>
  ELSE Decimal(n \div 10) \o << DigitChars[(n % 10) + 1] >>

\* contentDetails.duration values PT, PT<m>M, PT<s>S and PT<m>M<s>S; a
\* component of -1 is absent
DurationOf(m, s) ==
  << "P", "T" >>
    \o (IF m >= 0 THEN Decimal(m) \o << "M" >> ELSE << >>)
    \o (IF s >= 0 THEN Decimal(s) \o << "S" >> ELSE << >>)

MinuteValues == {-1, 0, 1, 2}

SecondValues == {-1, 0, 1, 30, 45, 59, 60, 61}

DurationTokens == { DurationOf(m, s) : m \in MinuteValues, s \in SecondValues }

\* durations the pattern does not match: the empty string read when the
\* field is missing, P0D (a live broadcast), and a token without its prefix
MalformedTokens ==
  { << >>, << "P", "0", "D" >>, << "1", "M", "3", "0", "S" >> }

\* durations of an hour and more: PT<h>H, PT<h>H<m>M<s>S, ...
DurationWithHours(h, m, s) ==
  << "P", "T" >> \o Decimal(h) \o << "H" >>
    \o SubSeq(DurationOf(m, s), 3, Len(DurationOf(m, s)))

HourValues == {1}

HourTokens ==
  { DurationWithHours(h, c[1], c[2]) :
      h \in HourValues, c \in { << -1, -1 >>, << 2, 3 >> } }

PT45S == DurationOf(-1, 45)

PT1M30S == DurationOf(1, 30)

Nike == << "N", "i", "k", "e" >>

Hi == << "h", "i" >>

Sale == << "S", "a", "l", "e" >>

\* "Unboxing the new iPhone 15! Link in bio to buy now."
UnboxingText ==
  << "U", "n", "b", "o", "x", "i", "n", "g", " ", "t", "h", "e",
     " ", "n", "e", "w", " ", "i", "P", "h", "o", "n", "e", " ",
     "1", "5", "!", " ", "L", "i", "n", "k", " ", "i", "n", " ",
     "b", "i", "o", " ", "t", "o", " ", "b", "u", "y", " ", "n",
     "o", "w", "." >>

\* a description of n characters in which neighbours differ
FillerChars == << "q", "j", "x" >>

Filler(n) == [k \in 1..n |-> FillerChars[(k % 3) + 1]]

\* lengths of snippet.description around the cut of the Detection Result
DescriptionLengths == {3, 199, 200, 201, 205}

\* max(predict_proba) of a two-class model, in percent
Confidences == {90}

None == [kind |-> "None"]

\* ------------------------------------------------------------------------
\* Collaborators: what one request can answer
\* ------------------------------------------------------------------------
\* request.execute() returns a response, raises HttpError, or raises an
\* exception that is not an HttpError (transport failure).
Failures == { [kind |-> "HttpError"], [kind |-> "error"] }

SearchAnswers(responses_) ==
  { [kind |-> "ok", ids |-> r] : r \in responses_ } \cup Failures

DetailsAnswers(items) ==
  { [kind |-> "ok", items |-> << >>] }
    \cup { [kind |-> "ok", items |-> << v >>] : v \in items }
    \cup Failures

CommentsAnswers(lists) ==
  { [kind |-> "ok", comments |-> c] : c \in lists } \cup Failures

\* vectorizer.transform / model.predict / model.predict_proba
ModelAnswers(labels) ==
  { [kind |-> "ok", prediction |-> b, confidence |-> c] :
      b \in labels, c \in Confidences }
    \cup { [kind |-> "raise"] }

\* The platforms explored.  The first has every kind of run (several queries,
\* repeated identifiers) over a small catalogue; the second has one query
\* with one hit over every kind of video, comment list and label; the third
\* has one query with one or two hits, and the instance is run again on it.
\* runs: how often the instance is run on the platform.
Catalogue ==
  [runs |-> 1,
   queries |-> QueryLists,
   responses |-> SearchResponses,
   items |-> { [duration |-> PT45S, title |-> Nike, description |-> << >>],
               [duration |-> PT45S, title |-> Hi, description |-> << >>],
               [duration |-> PT1M30S, title |-> Hi, description |-> << >>] },
   comments |-> { << >> },
   labels |-> {FALSE}]

OneVideo ==
  [runs |-> 1,
   queries |-> { << "t1" >> },
   responses |-> { << "v1" >> },
   items |-> { [duration |-> d, title |-> t, description |-> << >>] :
                 d \in DurationTokens \cup MalformedTokens \cup HourTokens,
                 t \in {Nike, Hi} }
             \cup { [duration |-> PT45S, title |-> Nike, description |-> Filler(n)] :
                      n \in DescriptionLengths }
             \cup { [duration |-> PT45S, title |-> UnboxingText,
                      description |-> << >>] },
   comments |-> { << >>, << Sale >> },
   labels |-> BOOLEAN]

Revisited ==
  [runs |-> MaxRuns,
   queries |-> { << "t1" >> },
   responses |-> { << "v1" >>, << "v1", "v2" >> },
   items |-> { [duration |-> PT45S, title |-> Nike, description |-> << >>] },
   comments |-> { << >> },
   labels |-> {FALSE}]

Worlds == {"catalogue", "one_video", "revisited"}

Platform(w) == CASE w = "catalogue" -> Catalogue
                 [] w = "one_video" -> OneVideo
                 [] w = "revisited" -> Revisited

\* f"{title} {description} {' '.join(comments)}"
all_text(details, cmts) ==
  details.title \o << " " >> \o details.description \o << " " >> \o JoinSpace(cmts)

\* The texts the videos of the platforms give, and what detect_products_regex
\* of each class returns on them; the detector being a function of its text,
\* it is evaluated once per text here and looked up in the steps below.
PlatformTexts ==
  { all_text(v, c) : v \in UNION { Platform(w).items : w \in Worlds },
                     c \in UNION { Platform(w).comments : w \in Worlds } }

FoundOnPlatform ==
  [text \in PlatformTexts |->
     [step4 |-> detect_products_regex(text),
      ysf |-> detect_products_regex_ysf(text)]]

VARIABLES
  impl,                 \* which class the instance is: "step4" or "ysf"
  world,                \* the platform explored, one of Worlds
  model_file,           \* the file at model_path exists
  vectorizer_file,      \* the file at vectorizer_path exists
  stable,               \* collaborators answer the same request the same way
  memo,                 \* the answers given so far (kept when stable)
  model, vectorizer,    \* "loaded" or "None"
  stats,                \* self.stats (step4 only)
  pc,                   \* position in run_complete_filter / run_filter
  search_queries,       \* argument of the run
  qi,                   \* index of the current query of the for loop
  video_ids,            \* result of search_videos for the current query
  new_video_ids,        \* video_ids without the processed ones
  i,                    \* index of the current video of the batch loop
  results,              \* filter_shorts_batch: results / filtered_shorts
  all_results,          \* all_results / all_filtered_shorts
  processed_video_ids,  \* the Seen-Set
  video_details,        \* analyze_video_content locals
  comments,
  regex_products,
  ml_result,
  result,               \* value returned by analyze_video_content
  exception,            \* the call whose exception ended the run, or "None"
  responses,            \* history: the search response of every query so far
  invocations,          \* history: the pipeline invocations of the run
  detector_calls,       \* history: the texts given to detect_products_regex
                        \* and the lists it returned
  run,                  \* history: how many runs the instance has started
  returned,             \* history: what each completed run returned, and
                        \* how many pipeline invocations it made
  answered,             \* history: how many requests returned a response
  begun                 \* history: how many pipeline invocations were begun

locals == << video_details, comments, regex_products, ml_result, result >>

history == << responses, invocations, detector_calls >>

lifetime == << run, returned, answered, begun >>

vars == << impl, world, model_file, vectorizer_file, stable, memo, model, vectorizer, stats, pc, search_queries,
           qi, video_ids, new_video_ids, i, results, all_results,
           processed_video_ids, video_details, comments, regex_products,
           ml_result, result, exception, responses, invocations,
           detector_calls, run, returned, answered, begun >>

\* The answers one call can get, and the record kept of the answer given
Answers(req, all) == IF stable /\ req \in DOMAIN memo THEN { memo[req] } ELSE all

Remember(req, ans) == IF stable THEN (req :> ans) @@ memo ELSE memo

\* Faulty variant, for sensitivity of the properties: every increment written to the same key
CountMisfiled(key) ==
  IF impl = "step4" THEN [stats EXCEPT !["videos_processed"] = @ + 1]
                    ELSE stats

\* self.stats[key] += 1 (youtube_shorts_filter.py keeps no counters)
Count(key) == IF impl = "step4" THEN [stats EXCEPT ![key] = @ + 1] ELSE stats

\* joblib.load(path): the object, or FileNotFoundError when no file is there
joblib_load(file) == IF file THEN "loaded" ELSE "FileNotFoundError"

\* Faulty variant, for sensitivity of the properties: the handler leaves what was loaded before the failure
load_ml_models_partial(model_path, vectorizer_path) ==
  [model |-> IF model_path THEN "loaded" ELSE "None",
   vectorizer |-> IF model_path /\ vectorizer_path THEN "loaded" ELSE "None"]

\* _load_ml_models (step4) / the try block of __init__ (ysf): the model is
\* loaded, then the vectorizer; on FileNotFoundError of either load both
\* attributes are set to None
load_ml_models(model_path, vectorizer_path) ==
  LET m == joblib_load(model_path)
      v == IF m = "FileNotFoundError" THEN "not reached"
                                      ELSE joblib_load(vectorizer_path)
  IN  IF "FileNotFoundError" \in {m, v}
      THEN [model |-> "None", vectorizer |-> "None"]
      ELSE [model |-> m, vectorizer |-> v]

\* The instance after __init__.  The platform with many runs is explored
\* with both files or neither, the other with every combination.
Init ==
  /\ impl \in {"step4", "ysf"}
  /\ world \in Worlds
  /\ stable \in BOOLEAN
  /\ memo = << >>
  /\ model_file \in BOOLEAN
  /\ vectorizer_file \in (IF world = "one_video" THEN BOOLEAN ELSE {model_file})
  /\ model = load_ml_models(model_file, vectorizer_file).model
  /\ vectorizer = load_ml_models(model_file, vectorizer_file).vectorizer
  /\ stats = [videos_processed |-> 0, shorts_found |-> 0,
              products_detected |-> 0, api_calls |-> 0]
  /\ pc = "idle"
  /\ search_queries = << >>
  /\ qi = 0
  /\ video_ids = << >>
  /\ new_video_ids = << >>
  /\ i = 0
  /\ results = << >>
  /\ all_results = << >>
  /\ processed_video_ids = {}
  /\ video_details = None
  /\ comments = << >>
  /\ regex_products = << >>
  /\ ml_result = None
  /\ result = None
  /\ exception = "None"
  /\ responses = << >>
  /\ invocations = << >>
  /\ detector_calls = {}
  /\ run = 0
  /\ returned = << >>
  /\ answered = 0
  /\ begun = 0

\* ------------------------------------------------------------------------
\* Batch Orchestrator: run_complete_filter (step4) / run_filter (ysf)
\* ------------------------------------------------------------------------
\* the identifiers the searches have returned so far
RECURSIVE Flat(_)
Flat(rs) == IF rs = << >> THEN << >> ELSE Head(rs) \o Flat(Tail(rs))

\* Faulty variant, for sensitivity of the properties: the two collections kept on the instance from run to run
StartOfRunKept ==
  [all_results |-> all_results, processed_video_ids |-> processed_video_ids]

\* all_results = []; processed_video_ids = set()
StartOfRun == [all_results |-> << >>, processed_video_ids |-> {}]

\* all_results = [], processed_video_ids = set(): the first run of the
\* instance, or a further one after a run has returned or raised; the locals
\* of the earlier run are gone, self.stats is kept
run_complete_filter ==
  /\ pc \in {"idle", "done", "aborted"}
  /\ run < Platform(world).runs
  /\ run' = run + 1
  /\ \E qs \in Platform(world).queries : search_queries' = qs
  /\ all_results' = StartOfRun.all_results
  /\ processed_video_ids' = StartOfRun.processed_video_ids
  /\ qi' = 0
  /\ pc' = "for_query"
  /\ video_ids' = << >>
  /\ new_video_ids' = << >>
  /\ i' = 0
  /\ results' = << >>
  /\ video_details' = None
  /\ comments' = << >>
  /\ regex_products' = << >>
  /\ ml_result' = None
  /\ result' = None
  /\ exception' = "None"
  /\ responses' = << >>
  /\ invocations' = << >>
  /\ detector_calls' = {}
  /\ UNCHANGED << impl, world, model_file, vectorizer_file, stable, memo,
                  model, vectorizer, stats, returned, answered, begun >>

\* for query in search_queries: ... return all_results
next_query ==
  /\ pc = "for_query"
  /\ IF qi < Len(search_queries)
     THEN qi' = qi + 1 /\ pc' = "search" /\ UNCHANGED returned
     ELSE /\ qi' = qi
          /\ pc' = "done"
          /\ returned' = Append(returned, [results |-> all_results,
                                           invocations |-> Len(invocations)])
  /\ UNCHANGED << impl, world, model_file, vectorizer_file, stable, run, answered, begun, exception, memo, model, vectorizer, stats, search_queries,
                  video_ids, new_video_ids, i, results, all_results,
                  processed_video_ids, locals, history >>

\* search_videos(query): the response's ids, [] on HttpError
search_videos ==
  /\ pc = "search"
  /\ LET req == << "search", search_queries[qi] >>
         fits == { r \in Platform(world).responses :
                     /\ Len(Flat(responses)) + Len(r) <= MaxReturned
                     /\ InOrderOfFirstUse(Flat(responses) \o r, VideoIds) }
     IN  \E ans \in Answers(req, SearchAnswers(fits)) :
           /\ memo' = Remember(req, ans)
           /\ answered' = IF ans.kind = "ok" THEN answered + 1 ELSE answered
           /\ CASE ans.kind = "ok" ->
                     /\ stats' = Count("api_calls")
                     /\ video_ids' = ans.ids
                     /\ responses' = Append(responses, ans.ids)
                     /\ pc' = "dedup"
                [] ans.kind = "HttpError" ->
                     /\ video_ids' = << >>
                     /\ responses' = Append(responses, << >>)
                     /\ pc' = "dedup"
                     /\ UNCHANGED stats
                [] ans.kind = "error" ->
                     /\ pc' = "aborted"
                     /\ UNCHANGED << stats, video_ids, responses >>
  /\ exception' = IF pc' = "aborted" THEN "search_videos" ELSE exception
  /\ UNCHANGED << impl, world, model_file, vectorizer_file, stable, run, returned, begun, model, vectorizer, search_queries, qi,
                  new_video_ids, i, results, all_results,
                  processed_video_ids, locals, invocations, detector_calls >>

\* Faulty variant, for sensitivity of the properties: the filter on processed_video_ids left out
NewVideoIdsUnfiltered(ids, seen) == ids

\* [vid for vid in video_ids if vid not in processed_video_ids]
NewVideoIds(ids, seen) == SelectSeq(ids, LAMBDA vid : vid \notin seen)

\* "Remove duplicates", then "if not new_video_ids: continue"
remove_duplicates ==
  /\ pc = "dedup"
  /\ LET new == NewVideoIds(video_ids, processed_video_ids)
     IN  IF new = << >>
         THEN /\ pc' = "for_query"
              /\ video_ids' = << >>
              /\ UNCHANGED << new_video_ids, results, i >>
         ELSE /\ pc' = "batch"
              /\ new_video_ids' = new
              /\ results' = << >>
              /\ i' = 0
              /\ UNCHANGED video_ids
  /\ UNCHANGED << impl, world, model_file, vectorizer_file, stable, lifetime, exception, memo, model, vectorizer, stats, search_queries,
                  qi, all_results, processed_video_ids, locals, history >>

\* for i, video_id in enumerate(video_ids, 1): ... return results
next_video ==
  /\ pc = "batch"
  /\ IF i < Len(new_video_ids)
     THEN /\ i' = i + 1
          /\ pc' = "details"
          /\ begun' = begun + 1
          /\ invocations' = Append(invocations,
               [q |-> qi, video_id |-> new_video_ids[i + 1],
                retained |-> FALSE, delayed |-> FALSE])
     ELSE /\ pc' = "extend"
          /\ UNCHANGED << i, invocations, begun >>
  /\ UNCHANGED << impl, world, model_file, vectorizer_file, stable, run, returned, answered, exception, memo, model, vectorizer, stats, search_queries,
                  qi, video_ids, new_video_ids, results, all_results,
                  processed_video_ids, locals, responses, detector_calls >>

\* Faulty variant, for sensitivity of the properties: a video without a result goes on to its comments
SkipNothing == "comments"

\* where a video that yields no result goes: analyze_video_content returns
\* None to the batch loop (step4), the loop continues (ysf)
Skip == IF impl = "step4" THEN "append" ELSE "batch"

\* get_video_details(video_id): the first item, None when there is none or
\* on HttpError
get_video_details ==
  /\ pc = "details"
  /\ LET req == << "details", new_video_ids[i] >>
     IN  \E ans \in Answers(req, DetailsAnswers(Platform(world).items)) :
           /\ memo' = Remember(req, ans)
           /\ answered' = IF ans.kind = "ok" THEN answered + 1 ELSE answered
           /\ CASE ans.kind = "ok" ->
                     /\ stats' = Count("api_calls")
                     /\ IF ans.items # << >>
                        THEN video_details' = ans.items[1] /\ pc' = "gate"
                        ELSE video_details' = None /\ pc' = Skip
                [] ans.kind = "HttpError" ->
                     /\ video_details' = None
                     /\ pc' = Skip
                     /\ UNCHANGED stats
                [] ans.kind = "error" ->
                     /\ pc' = "aborted"
                     /\ UNCHANGED << stats, video_details >>
  /\ exception' = IF pc' = "aborted" THEN "get_video_details" ELSE exception
  /\ UNCHANGED << impl, world, model_file, vectorizer_file, stable, run, returned, begun, model, vectorizer, search_queries, qi,
                  video_ids, new_video_ids, i, results, all_results,
                  processed_video_ids, comments, regex_products, ml_result,
                  result, history >>

\* if not self.is_short_video(video_details): return None / continue
duration_gate ==
  /\ pc = "gate"
  /\ LET m == IF impl = "step4"
              THEN is_short_video_parse(video_details.duration)
              ELSE is_short_video_ysf_parse(video_details.duration)
         short == IF impl = "step4"
                  THEN is_short_video(video_details.duration)
                  ELSE is_short_video_ysf(video_details.duration)
     IN  IF m.raises
         THEN pc' = "aborted" /\ UNCHANGED << stats, video_details >>
         ELSE IF short
         THEN /\ stats' = Count("shorts_found")
              /\ pc' = "comments"
              /\ UNCHANGED video_details
         ELSE /\ pc' = Skip
              /\ video_details' = None
              /\ UNCHANGED stats
  /\ exception' = IF pc' = "aborted" THEN "is_short_video" ELSE exception
  /\ UNCHANGED << impl, world, model_file, vectorizer_file, stable, lifetime, memo, model, vectorizer, search_queries, qi,
                  video_ids, new_video_ids, i, results, all_results,
                  processed_video_ids, comments, regex_products, ml_result,
                  result, history >>

\* get_video_comments(video_id): the comment texts, [] on HttpError
get_video_comments ==
  /\ pc = "comments"
  /\ LET req == << "comments", new_video_ids[i] >>
     IN  \E ans \in Answers(req, CommentsAnswers(Platform(world).comments)) :
           /\ memo' = Remember(req, ans)
           /\ answered' = IF ans.kind = "ok" THEN answered + 1 ELSE answered
           /\ CASE ans.kind = "ok" ->
                     /\ stats' = Count("api_calls")
                     /\ comments' = ans.comments
                     /\ pc' = "detect"
                [] ans.kind = "HttpError" ->
                     /\ comments' = << >>
                     /\ pc' = "detect"
                     /\ UNCHANGED stats
                [] ans.kind = "error" ->
                     /\ pc' = "aborted"
                     /\ UNCHANGED << stats, comments >>
  /\ exception' = IF pc' = "aborted" THEN "get_video_comments" ELSE exception
  /\ UNCHANGED << impl, world, model_file, vectorizer_file, stable, run, returned, begun, model, vectorizer, search_queries, qi,
                  video_ids, new_video_ids, i, results, all_results,
                  processed_video_ids, video_details, regex_products,
                  ml_result, result, history >>

\* detect_products_ml when no artifact is loaded
NoModel == model = "None" \/ vectorizer = "None"

\* Faulty variant, for sensitivity of the properties: a positive label where the code returns a negative one
NegativeFlipped == IF impl = "step4" THEN [prediction |-> TRUE, confidence |-> 0]
                                     ELSE [prediction |-> TRUE]

\* step4: {"prediction": False, "confidence": 0.0}; ysf: False
Negative == IF impl = "step4" THEN [prediction |-> FALSE, confidence |-> 0]
                              ELSE [prediction |-> FALSE]

\* step4: {"prediction": bool(prediction), "confidence": float(confidence)};
\* ysf: prediction[0] == 1
Predicted(ans) ==
  IF impl = "step4"
  THEN [prediction |-> ans.prediction, confidence |-> ans.confidence]
  ELSE [prediction |-> ans.prediction]

\* what detect_products_ml does with an exception of the vectorizer or the
\* model: step4 catches it (except Exception), ysf has no handler
MlFailure == IF impl = "step4" THEN "caught" ELSE "propagates"

\* Faulty variant, for sensitivity of the properties: nothing is found once the batch has a result
FoundPatternsForgetful(text) ==
  IF results # << >> THEN << >>
  ELSE IF text \in PlatformTexts THEN FoundOnPlatform[text][impl]
  ELSE IF impl = "step4" THEN detect_products_regex(text)
  ELSE detect_products_regex_ysf(text)

\* self.detect_products_regex(all_text) of the instance
FoundPatterns(text) ==
  IF text \in PlatformTexts THEN FoundOnPlatform[text][impl]
  ELSE IF impl = "step4" THEN detect_products_regex(text)
  ELSE detect_products_regex_ysf(text)

\* regex_patterns = detect_products_regex(all_text);
\* ml_result = detect_products_ml(all_text)
detect_products ==
  /\ pc = "detect"
  /\ LET text == all_text(video_details, comments)
         req == << "ml", text >>
     IN  /\ regex_products' = FoundPatterns(text)
         /\ detector_calls' = detector_calls \cup
                                { [text |-> text, found |-> regex_products'] }
         /\ IF NoModel
            THEN /\ ml_result' = Negative
                 /\ pc' = "decide"
                 /\ UNCHANGED memo
            ELSE \E ans \in Answers(req, ModelAnswers(Platform(world).labels)) :
                   /\ memo' = Remember(req, ans)
                   /\ CASE ans.kind = "ok" ->
                             ml_result' = Predicted(ans) /\ pc' = "decide"
                        [] ans.kind = "raise" /\ MlFailure = "caught" ->
                             ml_result' = Negative /\ pc' = "decide"
                        [] ans.kind = "raise" /\ MlFailure = "propagates" ->
                             ml_result' = ml_result /\ pc' = "aborted"
  /\ exception' = IF pc' = "aborted" THEN "detect_products_ml" ELSE exception
  /\ UNCHANGED << impl, world, model_file, vectorizer_file, stable, lifetime, model, vectorizer, stats, search_queries, qi,
                  video_ids, new_video_ids, i, results, all_results,
                  processed_video_ids, video_details, comments, result,
                  responses, invocations >>

TruncateAt == 200

Ellipsis == << ".", ".", "." >>

\* Faulty variant, for sensitivity of the properties: the description is kept whole
TruncatedNever(description) == description

\* description[:200] + "..." if len(description) > 200 else description
Truncated(description) ==
  IF Len(description) > TruncateAt
  THEN SubSeq(description, 1, TruncateAt) \o Ellipsis
  ELSE description

\* Faulty variant, for sensitivity of the properties: "and" where the code has "or"
has_product_both(regex, ml) == Len(regex) > 0 /\ ml.prediction

\* Faulty variant, for sensitivity of the properties: the test left out, every analysed short counts as a product
has_product_always(regex, ml) == TRUE

\* has_product = len(regex_patterns) > 0 or ml_result["prediction"]
\* (ysf: if regex_products or ml_detection)
has_product(regex, ml) == Len(regex) > 0 \/ ml.prediction

\* the dict both implementations build for a video
DetectionResult(video_id, details, cmts, regex, ml) ==
  IF impl = "step4"
  THEN [video_id |-> video_id,
        title |-> details.title,
        description |-> Truncated(details.description),
        url |-> << "https://www.youtube.com/watch?v=", video_id >>,
        has_product |-> has_product(regex, ml),
        regex_patterns |-> regex,
        ml_prediction |-> ml.prediction,
        ml_confidence |-> ml.confidence,
        comment_count |-> Len(cmts)]
  ELSE [video_id |-> video_id,
        title |-> details.title,
        description |-> Truncated(details.description),
        url |-> << "https://www.youtube.com/watch?v=", video_id >>,
        regex_patterns |-> regex,
        ml_detection |-> ml.prediction]

MarkRetained(inv) == [inv EXCEPT ![Len(inv)].retained = TRUE]

\* step4: the end of analyze_video_content (count a product, return the dict);
\* ysf: append the dict when a detector fired, then continue the loop
retention_decision ==
  /\ pc = "decide"
  /\ LET r == DetectionResult(new_video_ids[i], video_details, comments,
                              regex_products, ml_result)
     IN  IF impl = "step4"
         THEN /\ stats' = IF r.has_product THEN Count("products_detected")
                                           ELSE stats
              /\ result' = r
              /\ pc' = "append"
              /\ UNCHANGED << results, invocations, video_details, comments,
                              regex_products, ml_result >>
         ELSE /\ IF has_product(regex_products, ml_result)
                 THEN /\ results' = Append(results, r)
                      /\ invocations' = MarkRetained(invocations)
                 ELSE UNCHANGED << results, invocations >>
              /\ pc' = "batch"
              /\ video_details' = None
              /\ comments' = << >>
              /\ regex_products' = << >>
              /\ ml_result' = None
              /\ UNCHANGED << stats, result >>
  /\ UNCHANGED << impl, world, model_file, vectorizer_file, stable, lifetime, exception, memo, model, vectorizer, search_queries, qi,
                  video_ids, new_video_ids, i, all_results,
                  processed_video_ids, responses, detector_calls >>

\* step4, filter_shorts_batch: if result and result["has_product"]:
\* results.append(result); then videos_processed += 1
append_result ==
  /\ pc = "append"
  /\ IF result # None /\ result.has_product
     THEN /\ results' = Append(results, result)
          /\ invocations' = MarkRetained(invocations)
     ELSE UNCHANGED << results, invocations >>
  /\ stats' = Count("videos_processed")
  /\ video_details' = None
  /\ comments' = << >>
  /\ regex_products' = << >>
  /\ ml_result' = None
  /\ result' = None
  /\ pc' = "sleep"
  /\ UNCHANGED << impl, world, model_file, vectorizer_file, stable, lifetime, exception, memo, model, vectorizer, search_queries, qi,
                  video_ids, new_video_ids, i, all_results,
                  processed_video_ids, responses, detector_calls >>

\* the rate-limit delay that follows the last invocation has completed
MarkDelayed(inv) == [inv EXCEPT ![Len(inv)].delayed = TRUE]

\* step4, filter_shorts_batch: time.sleep(0.1)
rate_limit_sleep ==
  /\ pc = "sleep"
  /\ pc' = "batch"
  /\ invocations' = MarkDelayed(invocations)
  /\ UNCHANGED << impl, world, model_file, vectorizer_file, stable, lifetime, exception, memo, model, vectorizer, stats, search_queries,
                  qi, video_ids, new_video_ids, i, results, all_results,
                  processed_video_ids, locals, responses, detector_calls >>

\* Faulty variant, for sensitivity of the properties: the results of a query replace the earlier ones
ExtendedReplacing(all, query_results) == query_results

\* Faulty variant, for sensitivity of the properties: the results of a query put in front of the earlier ones
ExtendedInFront(all, query_results) == query_results \o all

\* all_results.extend(query_results)
Extended(all, query_results) == all \o query_results

\* Faulty variant, for sensitivity of the properties: only the retained identifiers are marked as seen
UpdatedRetainedOnly(seen, ids) ==
  seen \cup { results[k].video_id : k \in DOMAIN results }

\* Faulty variant, for sensitivity of the properties: the Seen-Set left as it was
UpdatedForgets(seen, ids) == seen

\* processed_video_ids.update(new_video_ids)
Updated(seen, ids) == seen \cup { ids[k] : k \in DOMAIN ids }

extend_results ==
  /\ pc = "extend"
  /\ all_results' = Extended(all_results, results)
  /\ processed_video_ids' = Updated(processed_video_ids, new_video_ids)
  /\ results' = << >>
  /\ video_ids' = << >>
  /\ new_video_ids' = << >>
  /\ i' = 0
  /\ pc' = "for_query"
  /\ UNCHANGED << impl, world, model_file, vectorizer_file, stable, lifetime, exception, memo, model, vectorizer, stats, search_queries,
                  qi, locals, history >>

Next ==
  \/ run_complete_filter
  \/ next_query
  \/ search_videos
  \/ remove_duplicates
  \/ next_video
  \/ get_video_details
  \/ duration_gate
  \/ get_video_comments
  \/ detect_products
  \/ retention_decision
  \/ append_result
  \/ rate_limit_sleep
  \/ extend_results

Spec == Init /\ [][Next]_vars

\* ------------------------------------------------------------------------
\* Properties
\* ------------------------------------------------------------------------
\* a run of the instance starts (the first one, or a further one)
RunStarts == run' = run + 1

\* the video ids of a list of Detection Results, in order
ResultIds(rs) == [k \in DOMAIN rs |-> rs[k].video_id]

\* the queries whose processing is over
ProcessedQueries == IF pc \in {"for_query", "done"} THEN 1..qi ELSE 1..(qi - 1)

\* C1: the list a run returns holds at most one Detection Result per
\* identifier, whatever the searches return.
C1_OneResultPerIdentifier ==
  pc = "done" =>
    \A a, b \in DOMAIN all_results :
      all_results[a].video_id = all_results[b].video_id => a = b

\* C2: an identifier returned by the search of an earlier query is in the
\* Seen-Set once that query is processed, is in no later query's
\* new_video_ids, and the pipeline is not invoked on it under a later query.
C2_SeenAcrossTerms ==
  /\ \A k \in DOMAIN responses :
       k \in ProcessedQueries => Range(responses[k]) \subseteq processed_video_ids
  /\ \A k \in DOMAIN responses :
       k < qi => Range(new_video_ids) \cap Range(responses[k]) = {}
  /\ \A n \in DOMAIN invocations : \A k \in DOMAIN responses :
       k < invocations[n].q => invocations[n].video_id \notin Range(responses[k])

\* a second query has returned an identifier the first query returned, and
\* the run went on to its end
C2_Witness ==
  /\ pc = "done"
  /\ Len(responses) = 2
  /\ Range(responses[1]) \cap Range(responses[2]) # {}
  /\ Len(invocations) >= 1

\* C3: on a duration PT, PT<m>M, PT<s>S or PT<m>M<s>S the duration gate lets
\* the video through iff m * 60 + s <= 60, an absent component counting 0.
C3_ShortIffWithinLimit ==
  [][pc = "gate" =>
       \A m \in MinuteValues, s \in SecondValues :
         video_details.duration = DurationOf(m, s) =>
           ((pc' = "comments") <=>
              ((IF m < 0 THEN 0 ELSE m) * 60 + (IF s < 0 THEN 0 ELSE s) <= 60))]_vars

\* the step at which a candidate that passed the metadata fetch and the
\* duration gate is retained or dropped
RetentionStep ==
  \/ impl = "step4" /\ pc = "append" /\ result # None
  \/ impl = "ysf" /\ pc = "decide"

\* the step appends one Detection Result for the current video to results
Retains ==
  /\ Len(results') = Len(results) + 1
  /\ SubSeq(results', 1, Len(results)) = results
  /\ results'[Len(results')].video_id = new_video_ids[i]

\* C4: a candidate that passed the metadata fetch and the duration gate gets
\* a Detection Result iff the match list is non-empty or the label is
\* positive; either detector alone is enough.
C4_RetainedIffEitherDetector ==
  [][RetentionStep =>
       /\ Retains <=> (regex_products # << >> \/ ml_result.prediction)
       /\ Retains \/ results' = results]_vars

\* a video is in the output on the label alone, another on the patterns alone
C4_Witness ==
  /\ pc = "done"
  /\ \E k \in DOMAIN all_results :
       /\ all_results[k].regex_patterns = << >>
       /\ (IF impl = "step4" THEN all_results[k].ml_prediction
                             ELSE all_results[k].ml_detection)

\* C5: with no artifact loaded the label is negative whatever the text, and
\* a candidate that passed the gate is retained iff the match list is
\* non-empty.
C5_PatternOnlyWithoutArtifact ==
  [][(model = "None" \/ vectorizer = "None") =>
       /\ pc = "detect" => pc' = "decide" /\ ~ml_result'.prediction
       /\ RetentionStep => (Retains <=> regex_products # << >>)
       /\ RetentionStep => (Retains \/ results' = results)]_vars

\* without an artifact one video was retained on a pattern and the run ended
C5_Witness ==
  /\ model = "None"
  /\ pc = "done"
  /\ world = "one_video"
  /\ Len(all_results) = 1
  /\ all_results[1].regex_patterns # << >>

\* C6: an exception of the vectorizer or the model is caught inside
\* detect_products_ml: detection always ends with a label and the exception
\* never ends the run.
C6_InferenceFailureCaught ==
  /\ exception # "detect_products_ml"
  /\ pc = "decide" => ml_result # None

\* C7: a failure of the search call, of the metadata fetch or of the comment
\* fetch never ends the run.
C7_FetchFailureNeverAborts ==
  exception \notin {"search_videos", "get_video_details", "get_video_comments"}

\* the pipeline invocations that ended with a Detection Result
RetainedInvocations == SelectSeq(invocations, LAMBDA v : v.retained)

\* the video ids of the results retained under query q, in output order
RetainedUnder(q) ==
  ResultIds(SelectSeq(invocations, LAMBDA v : v.retained /\ v.q = q))

\* a is b with some elements left out
RECURSIVE IsSubsequence(_, _)
IsSubsequence(a, b) ==
  IF a = << >> THEN TRUE
  ELSE IF b = << >> THEN FALSE
  ELSE IF Head(a) = Head(b) THEN IsSubsequence(Tail(a), Tail(b))
  ELSE IsSubsequence(a, Tail(b))

\* C8: queries are processed in input order; the results retained under an
\* earlier query precede those of a later one, and the results of one query
\* are in the order of its search response.
C8_ResultsInQueryOrder ==
  /\ \A a, b \in DOMAIN invocations :
       a < b => invocations[a].q <= invocations[b].q
  /\ \A n \in DOMAIN invocations : invocations[n].q \in DOMAIN responses
  /\ \A q \in DOMAIN responses : IsSubsequence(RetainedUnder(q), responses[q])
  /\ ResultIds(all_results \o results) = ResultIds(RetainedInvocations)

\* two results of two different videos in the output, retained under two
\* different queries
C8_Witness ==
  /\ pc = "done"
  /\ Len(all_results) = 2
  /\ all_results[1].video_id # all_results[2].video_id
  /\ RetainedInvocations[1].q # RetainedInvocations[2].q

Asked(req) == IF req \in DOMAIN memo THEN memo[req] ELSE [kind |-> "unasked"]

\* analyze_video_content and the retention test: the results one video adds
AnalyzeVideo(video_id) ==
  LET d == Asked(<< "details", video_id >>)
      found == d.kind = "ok" /\ d.items # << >>
      details == d.items[1]
      short == IF impl = "step4" THEN is_short_video(details.duration)
                                 ELSE is_short_video_ysf(details.duration)
      c == Asked(<< "comments", video_id >>)
      cmts == IF c.kind = "ok" THEN c.comments ELSE << >>
      text == all_text(details, cmts)
      regex == FoundPatterns(text)
      m == Asked(<< "ml", text >>)
      ml == IF ~NoModel /\ m.kind = "ok" THEN Predicted(m) ELSE Negative
  IN  IF found /\ short /\ has_product(regex, ml)
      THEN << DetectionResult(video_id, details, cmts, regex, ml) >>
      ELSE << >>

\* filter_shorts_batch(video_ids[k..])
RECURSIVE FilterBatch(_, _)
FilterBatch(ids, k) ==
  IF k > Len(ids) THEN << >>
  ELSE AnalyzeVideo(ids[k]) \o FilterBatch(ids, k + 1)

\* run_complete_filter(queries[k..]) from a Seen-Set and an output list
RECURSIVE RunFrom(_, _, _, _)
RunFrom(queries, k, seen, all) ==
  IF k > Len(queries) THEN all
  ELSE LET a == Asked(<< "search", queries[k] >>)
           ids == IF a.kind = "ok" THEN a.ids ELSE << >>
           new == NewVideoIds(ids, seen)
       IN  RunFrom(queries, k + 1, Updated(seen, new),
                   Extended(all, FilterBatch(new, 1)))

\* the query list without the later occurrences of a repeated query
RECURSIVE WithoutRepeats(_)
WithoutRepeats(queries) ==
  IF queries = << >> THEN << >>
  ELSE LET front == SubSeq(queries, 1, Len(queries) - 1)
           last == queries[Len(queries)]
       IN  IF last \in Range(front) THEN WithoutRepeats(front)
           ELSE Append(WithoutRepeats(front), last)

\* C10: with collaborators that answer the same request the same way, a run
\* on a list that repeats a query returns the list a run on the list without
\* the repetition returns.
C10_RepeatedQueryAddsNothing ==
  (stable /\ pc = "done") =>
    all_results = RunFrom(WithoutRepeats(search_queries), 1, {}, << >>)

\* a run over a query given twice has ended with a result
C10_Witness ==
  /\ stable
  /\ pc = "done"
  /\ search_queries = << "t1", "t1" >>
  /\ all_results # << >>

\* ------------------------------------------------------------------------
\* Pattern Detector
\* ------------------------------------------------------------------------
\* the Pattern Library of the instance
Library == IF impl = "step4" THEN regex_patterns ELSE patterns

\* the rule identifiers of a list of rules, in order
RuleTexts(rules) == [k \in DOMAIN rules |-> rules[k].text]

\* the rules of the library that match somewhere in the text as it was given,
\* letters compared case-insensitively, in library order
MatchingRules(text) ==
  RuleTexts(SelectSeq(Library, LAMBDA rule : re_search(rule.re, text)))

\* C11: the Pattern Detector returns exactly the rules of the library that
\* match the text case-insensitively somewhere in it, each at most once and
\* in library order; the empty list when no rule matches.
C11_MatchesInLibraryOrder ==
  [][pc = "detect" =>
       LET text == all_text(video_details, comments)
       IN  /\ regex_products' = MatchingRules(text)
           /\ IsSubsequence(regex_products', RuleTexts(Library))
           /\ \A a, b \in DOMAIN regex_products' :
                regex_products'[a] = regex_products'[b] => a = b]_vars

\* the detector has returned two rules for a text with a capital letter
C11_Witness ==
  /\ pc = "decide"
  /\ Len(regex_products) = 2
  /\ \E k \in DOMAIN video_details.title :
       video_details.title[k] # LowerChar(video_details.title[k])

C13_SeenSetGrows ==
  [][/\ ~RunStarts => processed_video_ids \subseteq processed_video_ids'
     /\ \A n \in DOMAIN invocations' :
          invocations'[n].q \in ProcessedQueries' =>
            invocations'[n].video_id \in processed_video_ids']_vars

\* a run has ended in which one candidate was retained and another was not
C13_Witness ==
  /\ pc = "done"
  /\ \E n, m \in DOMAIN invocations :
       /\ invocations[n].retained
       /\ ~invocations[m].retained
       /\ invocations[n].video_id # invocations[m].video_id
  /\ \A n \in DOMAIN invocations :
       invocations[n].video_id \in processed_video_ids

\* ------------------------------------------------------------------------
\* Candidate Pipeline
\* ------------------------------------------------------------------------
\* the metadata was found and the instance's duration gate answers true on it
GatePassed(details) ==
  /\ details # None
  /\ IF impl = "step4" THEN is_short_video(details.duration)
                       ELSE is_short_video_ysf(details.duration)

\* C14: when the metadata fetch gives nothing (not found, or failed) or the
\* duration gate answers false, the candidate is dropped at once: no comment
\* fetch, no detector call and no Detection Result for it.  Comments are
\* fetched, detectors run and results are appended only for a candidate
\* whose metadata is held and passed the gate.
C14_EarlyExits ==
  [][/\ pc = "details" =>
          /\ pc' \in {"gate", Skip, "aborted"}
          /\ pc' = "gate" <=> video_details' # None
          /\ results' = results /\ detector_calls' = detector_calls
     /\ pc = "gate" =>
          /\ pc' \in {"comments", Skip, "aborted"}
          /\ pc' = "comments" => GatePassed(video_details)
          /\ ~GatePassed(video_details) => video_details' = None
          /\ results' = results /\ detector_calls' = detector_calls
     /\ pc' \in {"comments", "detect", "decide"} => GatePassed(video_details')
     /\ (detector_calls' # detector_calls /\ ~RunStarts) =>
          GatePassed(video_details)
     /\ (results' # results /\ results' # << >>) =>
          GatePassed(video_details) /\ Retains]_vars

\* a run over one candidate has ended without any detector call: the
\* candidate was dropped before the detection step
C14_Witness ==
  /\ pc = "done"
  /\ Len(invocations) = 1
  /\ detector_calls = {}
  /\ all_results = << >>

\* C15: a failed comment fetch never stops the pipeline: detection follows
\* with an empty comment list, on title and description alone, and the
\* candidate is retained iff a detector fires on that text.
C15_CommentFailureDegrades ==
  [][/\ pc = "comments" =>
          /\ pc' = "detect"
          /\ (impl = "step4" /\ stats'.api_calls = stats.api_calls) =>
               comments' = << >>
     /\ (RetentionStep /\ comments = << >>) =>
          (Retains <=>
             \/ FoundPatterns(video_details.title \o << " " >>
                                \o video_details.description \o << " " >>) # << >>
             \/ ml_result.prediction)]_vars

\* re.match finds the pattern at the start of the token: both groups being
\* optional, that is the prefix PT
MatchesShape(duration) ==
  Len(duration) >= 2 /\ duration[1] = "P" /\ duration[2] = "T"

\* C16: on a duration token the pattern does not match at all (the empty
\* string of a missing field included) the duration gate answers false and
\* raises nothing: the candidate is dropped and the run goes on.
C16_UnmatchedTokenIsNotShort ==
  [][(pc = "gate" /\ ~MatchesShape(video_details.duration)) =>
       /\ pc' = Skip
       /\ exception' = exception
       /\ stats'.shorts_found = stats.shorts_found
       /\ results' = results]_vars

\* a run over one candidate whose duration the pattern does not match has
\* ended normally, without a result
C16_Witness ==
  /\ pc = "done"
  /\ exception = "None"
  /\ all_results = << >>
  /\ Asked(<< "details", "v1" >>).kind = "ok"
  /\ Asked(<< "details", "v1" >>).items # << >>
  /\ Asked(<< "details", "v1" >>).items[1].duration \in MalformedTokens

\* ------------------------------------------------------------------------
\* Statistical Classifier artifacts
\* ------------------------------------------------------------------------
\* C17: when the model file or the vectorizer file is absent, construction
\* ends with model and vectorizer both unset, and no step sets either
\* afterwards: every detection of the instance is pattern-only (the label is
\* negative and the model is never asked).
C17_MissingArtifactIsPermanent ==
  [][(~model_file \/ ~vectorizer_file) =>
       /\ model = "None" /\ vectorizer = "None"
       /\ model' = "None" /\ vectorizer' = "None"
       /\ pc = "detect" =>
            /\ pc' = "decide"
            /\ ~ml_result'.prediction
            /\ memo' = memo]_vars

\* an instance built with the model file but without the vectorizer file has
\* ended a run in which the detection step was reached
C17_Witness ==
  /\ model_file /\ ~vectorizer_file
  /\ model = "None" /\ vectorizer = "None"
  /\ pc = "done"
  /\ detector_calls # {}

\* ------------------------------------------------------------------------
\* Metadata fetches
\* ------------------------------------------------------------------------
\* the identifiers get_video_details has been called on so far, in order:
\* every pipeline invocation starts with that call
MetadataFetches ==
  [n \in 1..(IF pc = "details" THEN Len(invocations) - 1 ELSE Len(invocations))
     |-> invocations[n].video_id]

\* C18: in one run the metadata of an identifier is fetched at most once,
\* whatever the searches return and whether the fetch succeeded or failed.
C18_MetadataFetchedOnce ==
  \A a, b \in DOMAIN MetadataFetches :
    MetadataFetches[a] = MetadataFetches[b] => a = b

\* ------------------------------------------------------------------------
\* Output list
\* ------------------------------------------------------------------------
\* a is the beginning of b
IsPrefix(a, b) == Len(a) <= Len(b) /\ SubSeq(b, 1, Len(a)) = a

\* C19: the output list only grows at its end: a Detection Result once
\* appended is never removed, moved or changed, so the list at a point of the
\* run is a prefix of the list at every later point.  The same holds of the
\* output together with the results of the batch in progress.
C19_OutputOnlyGrows ==
  [][~RunStarts =>
       /\ IsPrefix(all_results, all_results')
       /\ IsPrefix(all_results \o results, all_results' \o results')]_vars

\* the output has grown twice: a result under the first query, then another
\* under the second
C19_Witness ==
  /\ pc = "for_query"
  /\ qi = 2
  /\ Len(all_results) = 2
  /\ RetainedUnder(1) = << all_results[1].video_id >>
  /\ RetainedUnder(2) = << all_results[2].video_id >>

\* ------------------------------------------------------------------------
\* Detection Result
\* ------------------------------------------------------------------------
\* C20: the description of a Detection Result is the fetched description
\* itself when that has at most 200 characters, and otherwise its first 200
\* characters followed by "..."; it never has more than 203 characters.
C20_DescriptionCapped ==
  [][/\ Retains =>
          LET fetched == video_details.description
              kept == results'[Len(results')].description
          IN  /\ Len(fetched) <= 200 => kept = fetched
              /\ Len(fetched) > 200 =>
                   /\ Len(kept) = 203
                   /\ \A k \in 1..200 : kept[k] = fetched[k]
                   /\ \A k \in 201..203 : kept[k] = "."
     /\ \A k \in DOMAIN all_results' : Len(all_results'[k].description) <= 203]_vars

\* a result whose description was cut is in the output of a finished run
C20_Witness ==
  /\ pc = "done"
  /\ Len(all_results) = 1
  /\ Len(all_results[1].description) = 203
  /\ all_results[1].description[203] = "."

\* ------------------------------------------------------------------------
\* Scenario: "Unboxing the new iPhone 15! Link in bio to buy now."
\* ------------------------------------------------------------------------
\* the brand (iphone) rule, the unboxing rule, the link-in-bio rule and the
\* buy-now rule, as the library of the instance writes them
ScenarioRules ==
  IF impl = "step4"
  THEN { "iphone\\s*\\d+", "unboxing", "link\\s+in\\s+bio", "buy\\s+now" }
  ELSE { "iphone\\\\s*\\\\d+", "unboxing", "link\\\\s+in\\\\s+bio",
         "buy\\\\s+now" }

\* C21: on the text "Unboxing the new iPhone 15! Link in bio to buy now." the
\* Pattern Detector matches at least the iphone rule, the unboxing rule, the
\* link-in-bio rule and the buy-now rule, and a short carrying it is
\* retained.
C21_UnboxingScenario ==
  [][/\ (pc = "detect" /\ video_details.title = UnboxingText) =>
          /\ ScenarioRules \subseteq Range(FoundPatterns(UnboxingText))
          /\ ScenarioRules \subseteq Range(regex_products')
     /\ (RetentionStep /\ video_details.title = UnboxingText) => Retains]_vars

\* ------------------------------------------------------------------------
\* Rate limiting
\* ------------------------------------------------------------------------
\* C22: within a batch a rate-limit delay lies between two successive
\* pipeline invocations: the invocation of an identifier starts only after
\* the delay that follows the previous identifier of the batch has completed.
C22_DelayBetweenInvocations ==
  \A n \in DOMAIN invocations :
    (n < Len(invocations) /\ invocations[n].q = invocations[n + 1].q) =>
      invocations[n].delayed

\* C23: the Seen-Set and the result list belong to one run: a further run on
\* the same instance starts with both empty, and when the collaborators
\* answer the same way every completed run returns the list the first one
\* returned.
C23_RunScopedCollections ==
  [][/\ (RunStarts /\ run >= 1) =>
          all_results' = << >> /\ processed_video_ids' = {}
     /\ stable =>
          \A k \in DOMAIN returned' :
            returned'[k].results = returned'[1].results]_vars

\* a second run has returned, after a first one that retained a video and
\* with collaborators that answer the same way
C23_Witness ==
  /\ stable
  /\ pc = "done"
  /\ Len(returned) = 2
  /\ returned[1].results # << >>
  /\ returned[2].results = returned[1].results

\* ------------------------------------------------------------------------
\* Duration Classifier, durations with hours and the classes compared
\* ------------------------------------------------------------------------
\* the seconds a duration stands for, an absent component counting 0
TotalSeconds(h, m, s) ==
  (IF h < 0 THEN 0 ELSE h) * 3600 + (IF m < 0 THEN 0 ELSE m) * 60
    + (IF s < 0 THEN 0 ELSE s)

\* C24: is_short_video of step4_complete_system.py (the same function as in
\* step1_basic_setup.py) lets a video through only if its duration is at
\* most 60 seconds in all: on every well-formed token, those with an hours
\* component included, true only if hours*3600 + minutes*60 + seconds <= 60.
C24_ShortOnlyWithinLimit ==
  [][(impl = "step4" /\ pc = "gate") =>
       /\ \A m \in MinuteValues, s \in SecondValues :
            (video_details.duration = DurationOf(m, s) /\ pc' = "comments")
              => TotalSeconds(-1, m, s) <= 60
       /\ \A h \in HourValues, m \in MinuteValues, s \in SecondValues :
            (video_details.duration = DurationWithHours(h, m, s)
               /\ pc' = "comments")
              => TotalSeconds(h, m, s) <= 60]_vars

\* C25: the is_short_video of youtube_shorts_filter.py answers as the one of
\* step4_complete_system.py (which step1_basic_setup.py and
\* tutorial_simple_version.py repeat) on every duration a video comes with.
C25_ClassifiersAgree ==
  pc = "gate" =>
    (is_short_video_ysf(video_details.duration)
       <=> is_short_video(video_details.duration))

\* ------------------------------------------------------------------------
\* Counters of the instance (self.stats)
\* ------------------------------------------------------------------------
\* the sum of the numbers of a list
RECURSIVE Sum(_)
Sum(ns) == IF ns = << >> THEN 0 ELSE Head(ns) + Sum(Tail(ns))

\* the Detection Results the completed runs returned, and the pipeline
\* invocations they made
ResultsReturned == Sum([k \in DOMAIN returned |-> Len(returned[k].results)])

InvocationsOfCompletedRuns ==
  Sum([k \in DOMAIN returned |-> returned[k].invocations])

\* C26: an instance driven through run_complete_filter alone has, whenever a
\* run has completed, products_detected equal to the number of Detection
\* Results its completed runs returned and videos_processed equal to the
\* number of pipeline invocations they made; no step lowers a counter.
C26_CountersMatchRuns ==
  [][impl = "step4" =>
       /\ pc' = "done" =>
            /\ stats'.products_detected = ResultsReturned'
            /\ stats'.videos_processed = InvocationsOfCompletedRuns'
       /\ \A key \in DOMAIN stats : stats'[key] >= stats[key]]_vars

\* C27, as claimed: in every state of a run, the states in the middle of one
\* identifier's pipeline included, products_detected <= shorts_found <=
\* videos_processed.
C27_ShortsWithinProcessed ==
  impl = "step4" =>
    /\ stats.products_detected <= stats.shorts_found
    /\ stats.shorts_found <= stats.videos_processed

\* C27, amended: in every state products_detected <= shorts_found, and
\* shorts_found and videos_processed are both at most the number of pipeline
\* invocations begun; shorts_found is counted inside the pipeline, right
\* after the duration gate, videos_processed only once the pipeline has
\* returned, so shorts_found may be ahead of videos_processed.
C27_CountersWithinInvocations ==
  impl = "step4" =>
    /\ stats.products_detected <= stats.shorts_found
    /\ stats.shorts_found <= begun
    /\ stats.videos_processed <= begun

\* in the middle of a pipeline, after the gate: the short is counted, the
\* video is not yet
C27_Witness ==
  /\ impl = "step4"
  /\ pc = "detect"
  /\ begun = 2
  /\ stats.shorts_found = 2
  /\ stats.videos_processed = 1
  /\ stats.products_detected = 1

\* ------------------------------------------------------------------------
\* Termination of a run
\* ------------------------------------------------------------------------
\* the steps of a run once it is started: the code goes from one statement
\* to the next, and every collaborator call returns or raises
RunStep ==
  \/ next_query
  \/ search_videos
  \/ remove_duplicates
  \/ next_video
  \/ get_video_details
  \/ duration_gate
  \/ get_video_comments
  \/ detect_products
  \/ retention_decision
  \/ append_result
  \/ rate_limit_sleep
  \/ extend_results

FairSpec == Spec /\ WF_vars(RunStep)

\* the identifiers of the response to query q that no earlier response of
\* the run had
FreshIds(q) ==
  SelectSeq(responses[q],
            LAMBDA v : v \notin Range(Flat(SubSeq(responses, 1, q - 1))))

FreshIdsInAll == Sum([q \in DOMAIN responses |-> Len(FreshIds(q))])

MinConfidences == { 10 * k : k \in 0..10 }

\* [r for r in results
\*  if r['ml_confidence'] >= min_confidence or r['regex_patterns']]
display_results(rs, min_confidence) ==
  SelectSeq(rs, LAMBDA r : r.ml_confidence >= min_confidence
                             \/ r.regex_patterns # << >>)

\* C29: whatever the threshold, every result of a run that passes the
\* confidence filter of display_results has matched patterns or a positive
\* label with a confidence of at least the threshold; a result with no
\* pattern and a negative label is never displayed.
C29_DisplayedHasEvidence ==
  (impl = "step4" /\ pc = "done") =>
    \A min_confidence \in MinConfidences :
      \A r \in Range(display_results(all_results, min_confidence)) :
        /\ \/ r.regex_patterns # << >>
           \/ r.ml_prediction /\ r.ml_confidence >= min_confidence
        /\ ~(r.regex_patterns = << >> /\ ~r.ml_prediction)

\* a run has returned a result the model alone stands for: it is displayed
\* under a threshold below its confidence and hidden above it
C29_Witness ==
  /\ impl = "step4"
  /\ pc = "done"
  /\ Len(all_results) = 1
  /\ all_results[1].regex_patterns = << >>
  /\ all_results[1].ml_prediction
  /\ display_results(all_results, 50) = all_results
  /\ display_results(all_results, 100) = << >>

\* ------------------------------------------------------------------------
\* api_calls
\* ------------------------------------------------------------------------
\* C30: api_calls counts the requests (search, metadata, comments) that
\* returned a response, nothing for a request that failed with an HTTP
\* error; when the first run of an instance has returned, api_calls <=
\* number of terms + 2 * videos_processed (during that run: at most the
\* number of terms + twice the pipeline invocations begun); comments are
\* requested, and counted, only for a video that passed the duration gate.
C30_ApiCallsCountResponses ==
  impl = "step4" =>
    /\ stats.api_calls = answered
    /\ run = 1 => stats.api_calls <= Len(search_queries) + 2 * begun
    /\ (pc = "done" /\ run = 1) =>
         stats.api_calls <= Len(search_queries) + 2 * stats.videos_processed
    /\ pc = "comments" => GatePassed(video_details)

\* a first run has returned in which the comments request of a video failed
\* with an HTTP error: two requests counted for three made
C30_Witness ==
  /\ impl = "step4"
  /\ pc = "done"
  /\ run = 1
  /\ search_queries = << "t1" >>
  /\ stats.videos_processed = 1
  /\ stats.api_calls = 2
  /\ Asked(<< "comments", "v1" >>).kind = "HttpError"

====
